---- MODULE Spec2Model ----
(***************************************************************************)
(* Model of the binary-options hedging simulator (src/simulator.py,        *)
(* src/models.py).                                                         *)
(*                                                                         *)
(* Numbers.  The program computes with Python/numpy floats.  The model     *)
(* computes with exact rationals <<n, d>> (d > 0, lowest terms), i.e. with *)
(* the real numbers the float operations approximate; rounding error of    *)
(* IEEE-754 arithmetic is not modelled.  Square roots are taken only of    *)
(* perfect squares, and the standard normal CDF of the code is modelled    *)
(* by its sign behaviour (see ProbUpOutcomes).                             *)
(***************************************************************************)
EXTENDS Integers, Sequences, FiniteSets, TLC

VARIABLES
    binary_params,   \* the BinaryOptionParams record handed to the simulator
    hedge_params,    \* the HedgeParams record handed to the simulator
    results,         \* BinaryOptionsSimulator.results (self.results)
    ret              \* outcome of the last call: its operation, inputs and value

vars == <<binary_params, hedge_params, results, ret>>

----------------------------------------------------------------------------
(* Exact rational arithmetic standing for float arithmetic.                *)

IAbs(n) == IF n < 0 THEN -n ELSE n

RECURSIVE GCD(_, _)
GCD(a, b) == IF b = 0 THEN a ELSE GCD(b, a % b)

\* n/d in lowest terms with a positive denominator (d # 0).
Rat(n, d) ==
    LET s == IF d < 0 THEN -1 ELSE 1
        g == GCD(IAbs(n), IAbs(d))
    IN  <<(s * n) \div g, (s * d) \div g>>

Zero == <<0, 1>>
One == <<1, 1>>

RAdd(a, b) == Rat(a[1] * b[2] + b[1] * a[2], a[2] * b[2])
RNeg(a) == <<-a[1], a[2]>>
RSub(a, b) == RAdd(a, RNeg(b))
\* cross-reduced so that intermediate products stay small
RMul(a, b) ==
    LET x == Rat(a[1], b[2])
        y == Rat(b[1], a[2])
    IN  <<x[1] * y[1], x[2] * y[2]>>
\* what a numpy float division by zero yields (inf or nan): not a rational
NonFinite == <<1, 0>>
\* a / b; a zero divisor yields NonFinite
RDiv(a, b) == IF b[1] = 0 THEN NonFinite ELSE RMul(a, Rat(b[2], b[1]))
RLt(a, b) == a[1] * b[2] < b[1] * a[2]
RLe(a, b) == a[1] * b[2] <= b[1] * a[2]
RGt(a, b) == RLt(b, a)
RGe(a, b) == RLe(b, a)
RAbs(a) == <<IAbs(a[1]), a[2]>>
RMax(a, b) == IF RGe(a, b) THEN a ELSE b

----------------------------------------------------------------------------
(* calculate_hedge_pnl                                                     *)

\* +price_change for a long hedge, -price_change for a short one
Directed(hedge, price_change_pct) ==
    IF hedge.hedge_direction = "long" THEN price_change_pct
                                      ELSE RNeg(price_change_pct)

PositionSize(hedge) == RMul(hedge.hedge_amount, hedge.leverage)

TotalFees(hedge) == RMul(RMul(PositionSize(hedge), hedge.fee_rate), <<2, 1>>)

EntryFee(hedge) == RMul(PositionSize(hedge), hedge.fee_rate)

UnleveragedPnl_Capped(hedge, price_change_pct) ==
    LET pnl == RMul(hedge.hedge_amount, Directed(hedge, price_change_pct))
        capped == RMax(pnl, RNeg(hedge.hedge_amount))
    IN  IF hedge.apply_fees THEN RSub(capped, TotalFees(hedge)) ELSE capped

\* leverage <= 1: linear P&L on the collateral, round-trip fees if applied
UnleveragedPnl(hedge, price_change_pct) ==
    LET pnl == RMul(hedge.hedge_amount, Directed(hedge, price_change_pct))
    IN  IF hedge.apply_fees THEN RSub(pnl, TotalFees(hedge)) ELSE pnl

LiquidationPoint(hedge) ==
    IF hedge.hedge_direction = "long"
    THEN RDiv(<<-1, 1>>, hedge.leverage)
    ELSE RDiv(One, hedge.leverage)

\* mutant: the liquidation point itself is not liquidated
IsLiquidated_Strict(hedge, price_change_pct) ==
    IF hedge.hedge_direction = "long"
    THEN RLt(price_change_pct, LiquidationPoint(hedge))
    ELSE RGt(price_change_pct, LiquidationPoint(hedge))

IsLiquidated(hedge, price_change_pct) ==
    IF hedge.hedge_direction = "long"
    THEN RLe(price_change_pct, LiquidationPoint(hedge))
    ELSE RGe(price_change_pct, LiquidationPoint(hedge))

LiquidatedPnl(hedge) ==
    IF hedge.apply_fees
    THEN RNeg(RAdd(hedge.hedge_amount, EntryFee(hedge)))
    ELSE RNeg(hedge.hedge_amount)

NotLiquidatedPnl(hedge, price_change_pct) ==
    LET raw_pnl == RMul(RMul(hedge.hedge_amount, hedge.leverage),
                        Directed(hedge, price_change_pct))
    IN  IF hedge.apply_fees THEN RSub(raw_pnl, TotalFees(hedge)) ELSE raw_pnl

\* which return statement of calculate_hedge_pnl is reached
HedgeBranch(hedge, price_change_pct) ==
    IF RLe(hedge.leverage, One) THEN "unleveraged"
    ELSE IF IsLiquidated(hedge, price_change_pct) THEN "liquidated"
    ELSE "open"

calculate_hedge_pnl(hedge, price_change_pct) ==
    IF RLe(hedge.leverage, One)
    THEN UnleveragedPnl(hedge, price_change_pct)
    ELSE IF IsLiquidated(hedge, price_change_pct)
         THEN LiquidatedPnl(hedge)
         ELSE NotLiquidatedPnl(hedge, price_change_pct)

----------------------------------------------------------------------------
(* calculate_expected_move, calculate_probability_itm                      *)

\* integer square root of a perfect square
ISqrt(n) == CHOOSE k \in 0..n : k * k = n

\* np.sqrt on the rationals whose root is rational
RSqrt(a) == <<ISqrt(a[1]), ISqrt(a[2])>>

DaysPerYear == 365

calculate_expected_move(current_price, iv, time_days) ==
    LET time_years == RDiv(time_days, <<DaysPerYear, 1>>)
    IN  RMul(RMul(current_price, iv), RSqrt(time_years))

\* The sign of d2 = ln(current_price / strike_price) / (iv * sqrt(time_years))
\* for positive prices: the sign of the logarithm, as the divisor is >= 0.
D2Sign(current_price, strike_price) ==
    IF current_price = strike_price THEN 0
    ELSE IF RGt(current_price, strike_price) THEN 1 ELSE -1

\* Whether d2 is finite: numpy's division by a zero iv * sqrt(time_years)
\* yields +inf or -inf (a warning, no exception).
D2Finite(current_price, strike_price, iv, time_days) ==
    \/ current_price = strike_price
    \/ RMul(iv, RSqrt(RDiv(time_days, <<DaysPerYear, 1>>))) # Zero

\* stats.norm.cdf(d2): 1/2 at 0, 1 at +inf, 0 at -inf; for a finite d2 > 0 a
\* value in (1/2, 1] (1.0 once d2 is large enough to round), and
\* symmetrically for d2 < 0.  3/4 and 1/4 stand for the values strictly
\* inside.
ProbUpOutcomes(current_price, strike_price, iv, time_days) ==
    LET sgn == D2Sign(current_price, strike_price)
        finite == D2Finite(current_price, strike_price, iv, time_days)
    IN  IF sgn = 0 THEN {<<1, 2>>}
        ELSE IF sgn > 0 THEN (IF finite THEN {<<3, 4>>, One} ELSE {One})
        ELSE (IF finite THEN {Zero, <<1, 4>>} ELSE {Zero})

ExpiredInTheMoney_AtStrike(current_price, strike_price, direction) ==
    \/ direction = "up" /\ RGe(current_price, strike_price)
    \/ direction = "down" /\ RLe(current_price, strike_price)

\* the condition of the time_days <= 0 branch (lines 25-26)
ExpiredInTheMoney(current_price, strike_price, direction) ==
    \/ direction = "up" /\ RGt(current_price, strike_price)
    \/ direction = "down" /\ RLt(current_price, strike_price)

\* The values calculate_probability_itm can return.
calculate_probability_itm(current_price, strike_price, iv, time_days, direction) ==
    IF RLe(time_days, Zero)
    THEN { IF ExpiredInTheMoney(current_price, strike_price, direction)
           THEN One ELSE Zero }
    ELSE { IF direction = "up" THEN prob_up ELSE RSub(One, prob_up) :
           prob_up \in ProbUpOutcomes(current_price, strike_price, iv, time_days) }

----------------------------------------------------------------------------
(* The price grid                                                          *)

Linspace_NoEndpoint(start, stop, num) ==
    LET step == RDiv(RSub(stop, start), <<num, 1>>)
    IN  [i \in 1..num |-> RAdd(start, RMul(<<i - 1, 1>>, step))]

\* np.linspace(start, stop, num) for num >= 0, as a 1-based sequence
Linspace(start, stop, num) ==
    LET step == RDiv(RSub(stop, start), <<num - 1, 1>>)
    IN  [i \in 1..num |->
            IF num = 1 THEN start
            ELSE IF i = num THEN stop
            ELSE RAdd(start, RMul(<<i - 1, 1>>, step))]

\* lines 152-158: half-width of the grid
MaxMovePct(bp, hp) ==
    LET expected_move == calculate_expected_move(bp.current_price,
                             bp.implied_volatility, bp.time_to_expiry)
        strike_distance_pct ==
            RDiv(RAbs(RSub(bp.strike_price, bp.current_price)), bp.current_price)
        base == RMax(RMul(<<3, 1>>, RDiv(expected_move, bp.current_price)),
                     RMul(strike_distance_pct, <<3, 2>>))
    IN  IF RGt(hp.leverage, One)
        THEN RMax(base, RDiv(<<3, 2>>, hp.leverage))
        ELSE base

PriceChanges(bp, hp, num_points) ==
    Linspace(RNeg(MaxMovePct(bp, hp)), MaxMovePct(bp, hp), num_points)

----------------------------------------------------------------------------
(* simulate_scenarios: per-point payoffs                                   *)

calculate_binary_option_payout(params, price_goes_up) ==
    IF price_goes_up
    THEN RMul(params.investment_amount, RSub(params.payout_multiplier_up, One))
    ELSE RMul(params.investment_amount, RSub(params.payout_multiplier_down, One))

\* mutant: a price exactly at the strike counts as up
BinaryPnlAt_AtStrikeUp(bp, binary_direction, price_change) ==
    LET actual_price == RMul(bp.current_price, RAdd(One, price_change))
        price_went_up == RGe(actual_price, bp.strike_price)
        binary_wins == \/ binary_direction = "up" /\ price_went_up
                       \/ binary_direction = "down" /\ ~price_went_up
    IN  IF binary_wins
        THEN IF binary_direction = "up"
             THEN calculate_binary_option_payout(bp, TRUE)
             ELSE calculate_binary_option_payout(bp, FALSE)
        ELSE RNeg(bp.investment_amount)

\* lines 178-194: the binary P&L at one grid point
BinaryPnlAt(bp, binary_direction, price_change) ==
    LET actual_price == RMul(bp.current_price, RAdd(One, price_change))
        price_went_up == RGt(actual_price, bp.strike_price)
        binary_wins == \/ binary_direction = "up" /\ price_went_up
                       \/ binary_direction = "down" /\ ~price_went_up
    IN  IF binary_wins
        THEN IF binary_direction = "up"
             THEN calculate_binary_option_payout(bp, TRUE)
             ELSE calculate_binary_option_payout(bp, FALSE)
        ELSE RNeg(bp.investment_amount)

\* mutant: the hedge P&L is subtracted
TotalPnlAt_Subtract(b_pnl, h_pnl) == RSub(b_pnl, h_pnl)

\* line 200
TotalPnlAt(b_pnl, h_pnl) == RAdd(b_pnl, h_pnl)

----------------------------------------------------------------------------
(* simulate_scenarios: aggregation                                         *)

RECURSIVE SeqMax(_)
SeqMax(seq) ==
    IF Len(seq) = 1 THEN seq[1] ELSE RMax(seq[1], SeqMax(Tail(seq)))

RMin(a, b) == IF RLe(a, b) THEN a ELSE b

RECURSIVE SeqMin(_)
SeqMin(seq) ==
    IF Len(seq) = 1 THEN seq[1] ELSE RMin(seq[1], SeqMin(Tail(seq)))

\* mutant: a pair that starts at zero is no crossing
CrossesZero_Strict(y, i) ==
    \/ RLt(y[i], Zero) /\ RGt(y[i + 1], Zero)
    \/ RGt(y[i], Zero) /\ RLt(y[i + 1], Zero)

\* mutant: a pair that ends at zero is a crossing
CrossesZero_Touching(y, i) ==
    \/ RLe(y[i], Zero) /\ RGe(y[i + 1], Zero)
    \/ RGe(y[i], Zero) /\ RLe(y[i + 1], Zero)

\* lines 214-215: the crossing test on the pair (i, i+1)
CrossesZero(y, i) ==
    \/ RLe(y[i], Zero) /\ RGt(y[i + 1], Zero)
    \/ RGe(y[i], Zero) /\ RLt(y[i + 1], Zero)

Interpolate_Outward(x, y, i) ==
    RAdd(x[i], RMul(RSub(x[i + 1], x[i]),
                    RDiv(y[i], RSub(y[i + 1], y[i]))))

\* lines 217-218: linear interpolation of the zero on the pair (i, i+1)
Interpolate(x, y, i) ==
    RAdd(x[i], RMul(RSub(x[i + 1], x[i]),
                    RDiv(RNeg(y[i]), RSub(y[i + 1], y[i]))))

\* the pairs on which the scan of lines 213-219 interpolates, in scan order
CrossingPairs(y) ==
    SelectSeq([i \in 1..(Len(y) - 1) |-> i], LAMBDA i : CrossesZero(y, i))

BreakEvenPoints(x, y) ==
    LET pairs == CrossingPairs(y)
    IN  [k \in 1..Len(pairs) |-> Interpolate(x, y, pairs[k])]

\* mutant: the last index of the minimum
ArgMinAbsDiff_Last(x, target) ==
    CHOOSE i \in 1..Len(x) :
        /\ \A j \in 1..Len(x) :
              RLe(RAbs(RSub(x[i], target)), RAbs(RSub(x[j], target)))
        /\ \A j \in (i + 1)..Len(x) :
              RGt(RAbs(RSub(x[j], target)), RAbs(RSub(x[i], target)))

\* np.argmin(np.abs(price_changes - target)): the first index of the minimum
ArgMinAbsDiff(x, target) ==
    CHOOSE i \in 1..Len(x) :
        /\ \A j \in 1..Len(x) :
              RLe(RAbs(RSub(x[i], target)), RAbs(RSub(x[j], target)))
        /\ \A j \in 1..(i - 1) :
              RGt(RAbs(RSub(x[j], target)), RAbs(RSub(x[i], target)))

ExpectedValue(realistic_prob, total_pnl, up_idx, down_idx) ==
    RAdd(RMul(realistic_prob, total_pnl[up_idx]),
         RMul(RSub(One, realistic_prob), total_pnl[down_idx]))

\* Python's None (an empty tuple, so that it compares with a number)
None == <<>>

\* line 243
LiquidationPct(hp) == RDiv(<<-100, 1>>, hp.leverage)

\* lines 239-246
LiquidationLong(hp) ==
    IF RGt(hp.leverage, One) /\ hp.hedge_direction = "long"
    THEN RDiv(LiquidationPct(hp), <<100, 1>>)
    ELSE None

\* mutant: the sign of the short threshold is not flipped
LiquidationShort_Negative(hp) ==
    IF RGt(hp.leverage, One) /\ hp.hedge_direction # "long"
    THEN RDiv(LiquidationPct(hp), <<100, 1>>)
    ELSE None

\* lines 240-248
LiquidationShort(hp) ==
    IF RGt(hp.leverage, One) /\ hp.hedge_direction # "long"
    THEN RDiv(RNeg(LiquidationPct(hp)), <<100, 1>>)
    ELSE None

----------------------------------------------------------------------------
(* simulate_scenarios: the result                                          *)

\* self.results = {} of __init__
EmptyResults == [populated |-> FALSE]

\* lines 145-271: the dictionary simulate_scenarios builds for num_points >= 1
SimulationResult(bp, hp, binary_direction, num_points, realistic_prob) ==
    LET price_changes == PriceChanges(bp, hp, num_points)
        binary_pnl == [i \in 1..num_points |->
                          BinaryPnlAt(bp, binary_direction, price_changes[i])]
        hedge_pnl == [i \in 1..num_points |->
                          calculate_hedge_pnl(hp, price_changes[i])]
        total_pnl == [i \in 1..num_points |->
                          TotalPnlAt(binary_pnl[i], hedge_pnl[i])]
        expected_move == calculate_expected_move(bp.current_price,
                             bp.implied_volatility, bp.time_to_expiry)
        expected_move_pct == RDiv(expected_move, bp.current_price)
        up_idx == ArgMinAbsDiff(price_changes, expected_move_pct)
        down_idx == ArgMinAbsDiff(price_changes, RNeg(expected_move_pct))
    IN  [populated |-> TRUE,
         price_changes |-> price_changes,
         total_pnl |-> total_pnl,
         binary_pnl |-> binary_pnl,
         hedge_pnl |-> hedge_pnl,
         max_profit |-> SeqMax(total_pnl),
         max_loss |-> SeqMin(total_pnl),
         break_even_points |-> BreakEvenPoints(price_changes, total_pnl),
         expected_value |->
             ExpectedValue(realistic_prob, total_pnl, up_idx, down_idx),
         current_price |-> bp.current_price,
         strike_price |-> bp.strike_price,
         realistic_probability |-> realistic_prob,
         expected_move |-> expected_move,
         implied_volatility |-> bp.implied_volatility,
         time_to_expiry |-> bp.time_to_expiry,
         liquidation_long |-> LiquidationLong(hp),
         liquidation_short |-> LiquidationShort(hp),
         leverage |-> hp.leverage,
         hedge_direction |-> hp.hedge_direction,
         apply_fees |-> hp.apply_fees,
         fee_rate |-> hp.fee_rate]

----------------------------------------------------------------------------
(* Inputs                                                                  *)

\* largest grid size num_points tried
MaxPoints == 7

\* the grid sizes tried: the empty grid, the one-point grid, the smallest even
\* and odd grids, and the largest
NumPointsChoices == {0, 1, 2, 3, MaxPoints}

Directions == {"up", "down"}
HedgeDirections == {"long", "short"}

BinaryParamsSet ==
    [current_price : {<<100, 1>>},
     strike_price : {<<100, 1>>, <<105, 1>>},
     payout_multiplier_up : {<<8, 5>>},
     payout_multiplier_down : {<<6, 5>>},
     investment_amount : {<<1000, 1>>},
     probability_up : {<<1, 2>>},
     implied_volatility : {Zero, <<3, 10>>},
     time_to_expiry : {Zero, <<73, 20>>}]

HedgeAmounts == {Zero, <<600, 1>>}
Leverages == {One, <<2, 1>>, <<20, 1>>}

HedgeParamsSet ==
    [hedge_amount : HedgeAmounts,
     leverage : Leverages,
     hedge_direction : HedgeDirections,
     apply_fees : BOOLEAN,
     fee_rate : {<<1, 100>>}]

----------------------------------------------------------------------------
(* The simulator                                                           *)

Init ==
    /\ binary_params \in BinaryParamsSet
    /\ hedge_params \in HedgeParamsSet
    /\ results = EmptyResults
    /\ ret = [op |-> "__init__"]

\* the exception simulate_scenarios raises before it assigns self.results, or
\* "" if it runs to its end: current_price = 0 divides by zero at line 152;
\* np.linspace (line 161) rejects a negative num_points; for num_points = 0 the
\* grid is empty and np.max (line 208) raises
SimulateRaises(bp, num_points) ==
    IF bp.current_price = Zero THEN "ZeroDivisionError"
    ELSE IF num_points <= 0 THEN "ValueError"
    ELSE ""

\* simulate_scenarios(binary_params, hedge_params, binary_direction, num_points).
\* ret.scan records the pairs (i, i+1) on which the break-even scan ran its
\* interpolation (lines 217-219); ret.after_result records whether the
\* simulator held a result of an earlier call when this call began.
HeldAfterRaise_Cleared(held) == EmptyResults

\* self.results after a call that raised: no statement before line 250
\* assigns it
HeldAfterRaise(held) == held

StoreResults_Update(held, fresh) ==
    IF held.populated
    THEN [fresh EXCEPT !.max_profit = RMax(held.max_profit, fresh.max_profit)]
    ELSE fresh

\* self.results = {...} (line 250): a new dict replaces the held one
StoreResults(held, fresh) == fresh

SimulateScenarios(binary_direction, num_points) ==
    IF SimulateRaises(binary_params, num_points) # ""
    THEN /\ results' = HeldAfterRaise(results)
         /\ ret' = [op |-> "simulate_scenarios",
                    binary_params |-> binary_params,
                    hedge_params |-> hedge_params,
                    binary_direction |-> binary_direction,
                    num_points |-> num_points,
                    raised |-> SimulateRaises(binary_params, num_points)]
         /\ UNCHANGED <<binary_params, hedge_params>>
    ELSE \E realistic_prob \in calculate_probability_itm(
                 binary_params.current_price, binary_params.strike_price,
                 binary_params.implied_volatility, binary_params.time_to_expiry,
                 binary_direction) :
            /\ results' = StoreResults(results,
                              SimulationResult(binary_params, hedge_params,
                                  binary_direction, num_points, realistic_prob))
            /\ ret' = [op |-> "simulate_scenarios",
                       binary_params |-> binary_params,
                       hedge_params |-> hedge_params,
                       binary_direction |-> binary_direction,
                       num_points |-> num_points,
                       raised |-> "",
                       after_result |-> results.populated,
                       scan |-> CrossingPairs(results'.total_pnl),
                       value |-> results']
            /\ UNCHANGED <<binary_params, hedge_params>>

Next ==
    \E binary_direction \in Directions, num_points \in NumPointsChoices :
        SimulateScenarios(binary_direction, num_points)

Spec == Init /\ [][Next]_vars

----------------------------------------------------------------------------
(* A caller that builds new parameter records between calls, valid or not  *)

CallBinaryParams ==
    [current_price : {Zero, <<100, 1>>},
     strike_price : {<<105, 1>>},
     payout_multiplier_up : {<<8, 5>>},
     payout_multiplier_down : {<<6, 5>>},
     investment_amount : {<<1000, 1>>},
     probability_up : {<<1, 2>>},
     implied_volatility : {<<3, 10>>},
     time_to_expiry : {<<73, 20>>}]

\* a valid hedge, and one each with leverage < 1, hedge_amount < 0 and
\* fee_rate >= 1
CallHedgeParams ==
    {[hedge_amount |-> <<600, 1>>, leverage |-> <<2, 1>>,
      hedge_direction |-> "long", apply_fees |-> TRUE, fee_rate |-> <<1, 100>>],
     [hedge_amount |-> <<600, 1>>, leverage |-> <<1, 2>>,
      hedge_direction |-> "long", apply_fees |-> TRUE, fee_rate |-> <<1, 100>>],
     [hedge_amount |-> <<-600, 1>>, leverage |-> <<2, 1>>,
      hedge_direction |-> "short", apply_fees |-> TRUE, fee_rate |-> <<1, 100>>],
     [hedge_amount |-> <<600, 1>>, leverage |-> <<2, 1>>,
      hedge_direction |-> "short", apply_fees |-> TRUE, fee_rate |-> <<3, 2>>]}

CallNumPoints == {0, 1, 3}

InitCalls ==
    /\ binary_params \in CallBinaryParams
    /\ hedge_params \in CallHedgeParams
    /\ results = EmptyResults
    /\ ret = [op |-> "__init__"]

\* the caller builds the records of its next call (as run_simulation does from
\* its input fields)
NewParams(bp, hp) ==
    /\ binary_params' = bp
    /\ hedge_params' = hp
    /\ UNCHANGED <<results, ret>>

NextCalls ==
    \/ \E bp \in CallBinaryParams, hp \in CallHedgeParams : NewParams(bp, hp)
    \/ \E binary_direction \in Directions, num_points \in CallNumPoints :
          SimulateScenarios(binary_direction, num_points)

SpecCalls == InitCalls /\ [][NextCalls]_vars

----------------------------------------------------------------------------
(* calculate_probability_itm called on its own                             *)

\* strike below, at and above the price; no and some volatility; a past, a
\* zero and a positive time to expiry
ProbBinaryParams ==
    [current_price : {<<100, 1>>},
     strike_price : {<<95, 1>>, <<100, 1>>, <<105, 1>>},
     payout_multiplier_up : {<<8, 5>>},
     payout_multiplier_down : {<<6, 5>>},
     investment_amount : {<<1000, 1>>},
     probability_up : {<<1, 2>>},
     implied_volatility : {Zero, <<3, 10>>},
     time_to_expiry : {<<-1, 1>>, Zero, <<73, 20>>}]

InitProb ==
    /\ binary_params \in ProbBinaryParams
    /\ hedge_params \in CallHedgeParams
    /\ results = EmptyResults
    /\ ret = [op |-> "__init__"]

\* calculate_probability_itm on the fields of binary_params, as
\* simulate_scenarios calls it (lines 164-170).  No statement of the function
\* raises for numeric arguments: the division of line 34 is numpy's.
CalculateProbabilityItm(direction) ==
    /\ \E value \in calculate_probability_itm(
               binary_params.current_price, binary_params.strike_price,
               binary_params.implied_volatility, binary_params.time_to_expiry,
               direction) :
          ret' = [op |-> "calculate_probability_itm",
                  direction |-> direction,
                  raised |-> "",
                  value |-> value]
    /\ UNCHANGED <<binary_params, hedge_params, results>>

NextProb == \E direction \in Directions : CalculateProbabilityItm(direction)

SpecProb == InitProb /\ [][NextProb]_vars

----------------------------------------------------------------------------
(* calculate_hedge_pnl called on its own                                   *)

\* price changes tried: far out, at each liquidation point of Leverages, and
\* 0.5% to either side of it
PriceChangeChoices ==
    {<<-2, 1>>, <<-1, 1>>, <<-101, 200>>, <<-1, 2>>, <<-99, 200>>,
     <<-11, 200>>, <<-1, 20>>, <<-9, 200>>, Zero,
     <<9, 200>>, <<1, 20>>, <<11, 200>>,
     <<99, 200>>, <<1, 2>>, <<101, 200>>, One, <<2, 1>>}

HedgeParamsAll ==
    [hedge_amount : HedgeAmounts,
     leverage : Leverages,
     hedge_direction : HedgeDirections,
     apply_fees : BOOLEAN,
     fee_rate : {Zero, <<1, 100>>}]

InitHedge ==
    /\ binary_params \in {bp \in BinaryParamsSet :
                             /\ bp.strike_price = bp.current_price
                             /\ bp.implied_volatility = Zero
                             /\ bp.time_to_expiry = Zero}
    /\ hedge_params \in HedgeParamsAll
    /\ results = EmptyResults
    /\ ret = [op |-> "__init__"]

CalculateHedgePnl(price_change_pct) ==
    /\ ret' = [op |-> "calculate_hedge_pnl",
               price_change_pct |-> price_change_pct,
               branch |-> HedgeBranch(hedge_params, price_change_pct),
               value |-> calculate_hedge_pnl(hedge_params, price_change_pct)]
    /\ UNCHANGED <<binary_params, hedge_params, results>>

NextHedge ==
    \E price_change_pct \in PriceChangeChoices :
        CalculateHedgePnl(price_change_pct)

SpecHedge == InitHedge /\ [][NextHedge]_vars

----------------------------------------------------------------------------
(* Properties of calculate_hedge_pnl                                       *)

HedgeCalled == ret.op = "calculate_hedge_pnl"

\* -(hedge_amount + entry_fee), entry_fee = hedge_amount * leverage * fee_rate
\* with fees and 0 without
LossFloorValue ==
    LET hp == hedge_params
        entry_fee == IF hp.apply_fees
                     THEN RMul(RMul(hp.hedge_amount, hp.leverage), hp.fee_rate)
                     ELSE Zero
    IN  RNeg(RAdd(hp.hedge_amount, entry_fee))

\* price_change is at or beyond the liquidation point: price_change <=
\* -1/leverage for a long hedge, price_change >= +1/leverage for a short one
BeyondLiquidationPoint(price_change) ==
    IF hedge_params.hedge_direction = "long"
    THEN RLe(RMul(price_change, hedge_params.leverage), <<-1, 1>>)
    ELSE RGe(RMul(price_change, hedge_params.leverage), One)

\* C1: Loss floor.  For leverage >= 1, hedge_amount >= 0, 0 <= fee_rate < 1,
\* either direction, fees on or off and every price_change, the value
\* calculate_hedge_pnl returns is >= -(hedge_amount + entry_fee).
C1_LossFloor ==
    HedgeCalled => RGe(ret.value, LossFloorValue)

\* C2: Liquidation boundary continuity.  For leverage > 1 the not-liquidated
\* P&L tends to -(hedge_amount + entry_fee) as price_change approaches the
\* liquidation point from the not-liquidated side, with fees and without:
\* the P&L is linear with slope hedge_amount * leverage, so its distance to
\* that value is the slope times the distance of price_change to the
\* liquidation point.
C2_BoundaryContinuity ==
    (HedgeCalled /\ RGt(hedge_params.leverage, One)
                 /\ ~BeyondLiquidationPoint(ret.price_change_pct))
    => LET hp == hedge_params
           point == IF hp.hedge_direction = "long"
                    THEN Rat(-hp.leverage[2], hp.leverage[1])
                    ELSE Rat(hp.leverage[2], hp.leverage[1])
           distance == RAbs(RSub(ret.price_change_pct, point))
       IN  RSub(ret.value, LossFloorValue)
               = RMul(RMul(hp.hedge_amount, hp.leverage), distance)

\* C3: For leverage > 1 a long hedge is liquidated exactly when price_change
\* <= -1/leverage and a short hedge exactly when price_change >= +1/leverage
\* (boundary included), and every liquidated price_change yields the same
\* value -(hedge_amount + entry_fee), however far past the liquidation point.
C3_LiquidationTest ==
    (HedgeCalled /\ RGt(hedge_params.leverage, One))
    => /\ (ret.branch = "liquidated")
              <=> BeyondLiquidationPoint(ret.price_change_pct)
       /\ BeyondLiquidationPoint(ret.price_change_pct)
              => ret.value = LossFloorValue

\* a leveraged hedge with fees evaluated exactly at its liquidation point and
\* found liquidated there
C3_Witness ==
    /\ HedgeCalled
    /\ RGt(hedge_params.leverage, One)
    /\ hedge_params.apply_fees
    /\ hedge_params.fee_rate # Zero
    /\ hedge_params.hedge_amount # Zero
    /\ RAbs(RMul(ret.price_change_pct, hedge_params.leverage)) = One
    /\ ret.branch = "liquidated"
    /\ ret.value = LossFloorValue

----------------------------------------------------------------------------
(* Properties of simulate_scenarios                                        *)

\* the last call was a simulate_scenarios that returned a result
Simulated == ret.op = "simulate_scenarios" /\ ret.raised = ""

\* the binary payoff at price_change as the specification words it
BinaryPayoff(bp, direction, price_change) ==
    LET actual_price == RMul(bp.current_price, RAdd(One, price_change))
        wins == IF direction = "up"
                THEN RGt(actual_price, bp.strike_price)
                ELSE RLe(actual_price, bp.strike_price)
        multiplier == IF direction = "up" THEN bp.payout_multiplier_up
                                          ELSE bp.payout_multiplier_down
    IN  IF wins
        THEN RSub(RMul(bp.investment_amount, multiplier), bp.investment_amount)
        ELSE RNeg(bp.investment_amount)

\* C4: At every grid index i, total_pnl[i] = binary_pnl[i] + hedge_pnl[i],
\* binary_pnl[i] and hedge_pnl[i] being the payoffs at price_changes[i]; the
\* four sequences all have the requested length N.
C4_TotalIsSum ==
    Simulated =>
        LET r == ret.value
            n == ret.num_points
        IN  /\ Len(r.price_changes) = n
            /\ Len(r.binary_pnl) = n
            /\ Len(r.hedge_pnl) = n
            /\ Len(r.total_pnl) = n
            /\ \A i \in 1..n :
                  /\ r.total_pnl[i][1] * r.binary_pnl[i][2] * r.hedge_pnl[i][2]
                       = r.total_pnl[i][2]
                           * (r.binary_pnl[i][1] * r.hedge_pnl[i][2]
                              + r.hedge_pnl[i][1] * r.binary_pnl[i][2])
                  /\ r.binary_pnl[i]
                       = BinaryPayoff(binary_params, ret.binary_direction,
                                      r.price_changes[i])
                  /\ r.hedge_pnl[i]
                       = calculate_hedge_pnl(hedge_params, r.price_changes[i])

\* a result on the largest grid in which the hedge P&L and the binary P&L both
\* vary along the grid
C4_Witness ==
    /\ Simulated
    /\ ret.num_points = MaxPoints
    /\ \E i, j \in 1..MaxPoints :
          /\ ret.value.binary_pnl[i] # ret.value.binary_pnl[j]
          /\ ret.value.hedge_pnl[i] # ret.value.hedge_pnl[j]
          /\ ret.value.hedge_pnl[i] # Zero
          /\ ret.value.total_pnl[i] # ret.value.binary_pnl[i]

\* C5: With actual_price = current_price * (1 + price_change), an up bet wins
\* iff actual_price > strike_price and a down bet wins iff actual_price <=
\* strike_price; a win yields investment_amount * (multiplier of the bet
\* direction - 1), a loss yields -investment_amount.
C5_BinaryPayoff ==
    Simulated =>
        \A i \in 1..ret.num_points :
            LET bp == binary_params
                x == ret.value.price_changes[i]
                \* actual_price - strike_price, scaled by the denominators
                above == bp.current_price[1] * (x[2] + x[1]) * bp.strike_price[2]
                           - bp.strike_price[1] * bp.current_price[2] * x[2]
                won == RMul(bp.investment_amount,
                            RSub(IF ret.binary_direction = "up"
                                 THEN bp.payout_multiplier_up
                                 ELSE bp.payout_multiplier_down, One))
                lost == RNeg(bp.investment_amount)
            IN  ret.value.binary_pnl[i] =
                    IF ret.binary_direction = "up"
                    THEN (IF above > 0 THEN won ELSE lost)
                    ELSE (IF above <= 0 THEN won ELSE lost)

\* an up bet evaluated at a grid point whose price is exactly the strike (it
\* loses there) and at a point above it (it wins there)
C5_Witness ==
    /\ Simulated
    /\ ret.binary_direction = "up"
    /\ \E i, j \in 1..ret.num_points :
          /\ RMul(binary_params.current_price,
                  RAdd(One, ret.value.price_changes[i]))
               = binary_params.strike_price
          /\ ret.value.binary_pnl[i] = RNeg(binary_params.investment_amount)
          /\ ret.value.binary_pnl[j] # ret.value.binary_pnl[i]

\* the sign of a number: -1, 0 or 1
Sign(a) == IF a[1] < 0 THEN -1 ELSE IF a[1] = 0 THEN 0 ELSE 1

\* the pairs (i, i+1) of y the specification declares a crossing
DeclaredCrossings(y) ==
    {i \in 1..(Len(y) - 1) :
        \/ Sign(y[i]) <= 0 /\ Sign(y[i + 1]) > 0
        \/ Sign(y[i]) >= 0 /\ Sign(y[i + 1]) < 0}

\* C6: Scanning the adjacent grid pairs in increasing i, a break-even is
\* reported for the pair exactly when (y[i] <= 0 and y[i+1] > 0) or
\* (y[i] >= 0 and y[i+1] < 0); its value is
\* x[i] + (x[i+1] - x[i]) * (-y[i] / (y[i+1] - y[i])); break_even_points
\* lists the values in grid order.
C6_BreakEvenDetection ==
    Simulated =>
        LET x == ret.value.price_changes
            y == ret.value.total_pnl
            be == ret.value.break_even_points
            crossings == DeclaredCrossings(y)
        IN  /\ Len(be) = Cardinality(crossings)
            /\ \A i \in crossings :
                  LET k == Cardinality({j \in crossings : j <= i})
                      dy == RSub(y[i + 1], y[i])
                      dx == RSub(x[i + 1], x[i])
                  IN  \* (be[k] - x[i]) * dy = dx * (-y[i])
                      /\ dy # Zero
                      /\ RMul(RSub(be[k], x[i]), dy) = RMul(dx, RNeg(y[i]))

\* a result with two break-evens, one on a rising and one on a falling pair
C6_Witness ==
    /\ Simulated
    /\ Len(ret.value.break_even_points) >= 2
    /\ \E i, j \in DeclaredCrossings(ret.value.total_pnl) :
          /\ Sign(ret.value.total_pnl[i + 1]) > 0
          /\ Sign(ret.value.total_pnl[j + 1]) < 0

\* the elements of a sequence
Range(seq) == {seq[k] : k \in 1..Len(seq)}

\* C7: For every adjacent grid pair with total_pnl[i] = total_pnl[i+1]
\* (both zero included) the scan reports no break-even and never evaluates
\* the interpolation quotient with a zero denominator.
C7_FlatSegmentGuard ==
    Simulated =>
        LET y == ret.value.total_pnl
        IN  /\ \A i \in 1..(Len(y) - 1) :
                  y[i] = y[i + 1] => i \notin Range(ret.scan)
            /\ \A i \in Range(ret.scan) : RSub(y[i + 1], y[i]) # Zero
            /\ \A k \in 1..Len(ret.value.break_even_points) :
                  ret.value.break_even_points[k][2] # 0

\* a result with a flat pair at zero next to a pair that falls to zero, and a
\* reported break-even elsewhere
C7_Witness ==
    /\ Simulated
    /\ Len(ret.value.break_even_points) >= 1
    /\ \E i \in 2..(ret.num_points - 1) :
          /\ ret.value.total_pnl[i - 1] # Zero
          /\ ret.value.total_pnl[i] = Zero
          /\ ret.value.total_pnl[i + 1] = Zero

C9_LiquidationInsideGrid ==
    (Simulated /\ RGt(hedge_params.leverage, One)) =>
        LET x == ret.value.price_changes
            n == ret.num_points
            point == IF hedge_params.hedge_direction = "long"
                     THEN Rat(-hedge_params.leverage[2], hedge_params.leverage[1])
                     ELSE Rat(hedge_params.leverage[2], hedge_params.leverage[1])
        IN  /\ RLt(x[1], point)
            /\ RLt(point, x[n])

\* the first index of x nearest to target
FirstNearest(x, target) ==
    LET dist(i) == RAbs(RSub(x[i], target))
        nearest == {i \in 1..Len(x) : \A j \in 1..Len(x) : RLe(dist(i), dist(j))}
    IN  CHOOSE i \in nearest : \A j \in nearest : i <= j

\* expected_value is the probability-weighted average of total_pnl at the
\* first grid indices nearest +expected_move_pct and -expected_move_pct, the
\* weight being the in-the-money probability of the configured direction
WeightedAverage ==
    LET r == ret.value
        bp == binary_params
        expected_move_pct == RDiv(r.expected_move, bp.current_price)
        up_idx == FirstNearest(r.price_changes, expected_move_pct)
        down_idx == FirstNearest(r.price_changes, RNeg(expected_move_pct))
        p == r.realistic_probability
    IN  /\ p \in calculate_probability_itm(bp.current_price, bp.strike_price,
                     bp.implied_volatility, bp.time_to_expiry,
                     ret.binary_direction)
        /\ r.expected_value
             = RAdd(RMul(p, r.total_pnl[up_idx]),
                    RSub(r.total_pnl[down_idx], RMul(p, r.total_pnl[down_idx])))

\* total_pnl at the two indices of the expected value, lower one first
ExpectedValueEnds ==
    LET r == ret.value
        expected_move_pct == RDiv(r.expected_move, binary_params.current_price)
        a == r.total_pnl[FirstNearest(r.price_changes, expected_move_pct)]
        b == r.total_pnl[FirstNearest(r.price_changes, RNeg(expected_move_pct))]
    IN  IF RLe(a, b) THEN <<a, b>> ELSE <<b, a>>

\* C10 as stated: expected_value = p * total_pnl[up_idx] + (1 - p) *
\* total_pnl[down_idx] and expected_value lies strictly between
\* total_pnl[up_idx] and total_pnl[down_idx], for every valid run (a grid of at
\* least two points).
C10_StrictlyBetween ==
    (Simulated /\ ret.num_points >= 2) =>
        /\ WeightedAverage
        /\ RLt(ExpectedValueEnds[1], ret.value.expected_value)
        /\ RLt(ret.value.expected_value, ExpectedValueEnds[2])

\* C10 amended: expected_value = p * total_pnl[up_idx] + (1 - p) *
\* total_pnl[down_idx] and expected_value lies between total_pnl[up_idx] and
\* total_pnl[down_idx], ends included.
C10_Between ==
    Simulated =>
        /\ WeightedAverage
        /\ RLe(ExpectedValueEnds[1], ret.value.expected_value)
        /\ RLe(ret.value.expected_value, ExpectedValueEnds[2])

\* a run with a probability strictly inside (0, 1) and different total_pnl at
\* the two indices, so that the expected value is neither of them
C10_Witness ==
    /\ Simulated
    /\ RLt(Zero, ret.value.realistic_probability)
    /\ RLt(ret.value.realistic_probability, One)
    /\ ExpectedValueEnds[1] # ExpectedValueEnds[2]
    /\ binary_params.implied_volatility # Zero
    /\ binary_params.time_to_expiry # Zero
    /\ ret.value.expected_value # ExpectedValueEnds[1]
    /\ ret.value.expected_value # ExpectedValueEnds[2]

----------------------------------------------------------------------------
(* Properties of the simulator under invalid input and over several calls  *)

\* the last call was a simulate_scenarios
SimulateCalled == ret.op = "simulate_scenarios"

\* the inputs of the last simulate_scenarios call are invalid: leverage < 1,
\* hedge_amount < 0, fee_rate outside [0, 1), current_price <= 0 or N < 2
InvalidInput ==
    \/ RLt(ret.hedge_params.leverage, One)
    \/ RLt(ret.hedge_params.hedge_amount, Zero)
    \/ RLt(ret.hedge_params.fee_rate, Zero)
    \/ RGe(ret.hedge_params.fee_rate, One)
    \/ RLe(ret.binary_params.current_price, Zero)
    \/ ret.num_points < 2

\* C11: A simulation run given leverage < 1, hedge_amount < 0, fee_rate
\* outside [0, 1), current_price <= 0 or grid size N < 2 fails with an
\* InvalidParameter error and returns no result.
C11_InvalidInputRejected ==
    (SimulateCalled /\ InvalidInput) => ret.raised = "InvalidParameter"

----------------------------------------------------------------------------
(* Properties of calculate_probability_itm                                 *)

ProbabilityCalled == ret.op = "calculate_probability_itm"

\* iv * sqrt(time_years) is zero while the option has time left and the price
\* is off the strike
ZeroVolatilityCase ==
    /\ RGt(binary_params.time_to_expiry, Zero)
    /\ binary_params.current_price # binary_params.strike_price
    /\ RMul(binary_params.implied_volatility,
            RSqrt(RDiv(binary_params.time_to_expiry, <<DaysPerYear, 1>>))) = Zero

\* C12: calculate_probability_itm called with time_to_expiry > 0,
\* current_price # strike_price and iv * sqrt(time_years) = 0 fails with an
\* InvalidParameter error and returns no probability.
C12_ZeroVolatilityGuard ==
    (ProbabilityCalled /\ ZeroVolatilityCase) => ret.raised = "InvalidParameter"

\* C13: when time_to_expiry <= 0, calculate_probability_itm returns 1 for up
\* with the price above the strike and for down with the price below it, and 0
\* otherwise; at current_price = strike_price it returns 0 for both directions.
C13_ExpiredProbability ==
    (ProbabilityCalled /\ RLe(binary_params.time_to_expiry, Zero)) =>
        LET c == binary_params.current_price
            k == binary_params.strike_price
        IN  /\ ret.raised = ""
            /\ RGt(c, k) => ret.value = (IF ret.direction = "up" THEN One ELSE Zero)
            /\ RLt(c, k) => ret.value = (IF ret.direction = "down" THEN One ELSE Zero)
            /\ c = k => ret.value = Zero

\* an expired option exactly at the strike, evaluated to 0
C13_Witness ==
    /\ ProbabilityCalled
    /\ RLe(binary_params.time_to_expiry, Zero)
    /\ binary_params.current_price = binary_params.strike_price
    /\ ret.value = Zero

----------------------------------------------------------------------------
(* Properties over several calls                                           *)

\* what a freshly created simulator returns for the inputs of the last call
FreshResults ==
    { SimulationResult(ret.binary_params, ret.hedge_params,
                       ret.binary_direction, ret.num_points, p) :
        p \in calculate_probability_itm(
                  ret.binary_params.current_price, ret.binary_params.strike_price,
                  ret.binary_params.implied_volatility,
                  ret.binary_params.time_to_expiry, ret.binary_direction) }

\* C14: after any sequence of successful simulate_scenarios calls, the held
\* result and the returned result equal what a freshly created simulator
\* returns for the last call's inputs alone.
C14_HistoryIndependence ==
    Simulated => /\ results = ret.value
                 /\ ret.value \in FreshResults

\* a successful call made while the result of an earlier call was held
C14_Witness ==
    /\ Simulated
    /\ ret.after_result
    /\ results = ret.value

\* C19: a simulate_scenarios call that raises leaves the held result exactly
\* as it was; the held result changes only at the end of a call that
\* completes, and then to the whole result of that call.
C19_FailedRunKeepsResult ==
    [][/\ (ret' # ret /\ ret'.op = "simulate_scenarios" /\ ret'.raised # "")
            => results' = results
       /\ results' # results
            => /\ ret'.op = "simulate_scenarios"
               /\ ret'.raised = ""
               /\ results' = ret'.value]_vars

\* a call that raised while the result of an earlier successful call is held
C19_Witness ==
    /\ SimulateCalled
    /\ ret.raised # ""
    /\ results.populated

----------------------------------------------------------------------------
(* Properties of the price grid and of the break-even list                 *)

\* a run on valid inputs: it completed on a grid of at least two points
ValidRun == Simulated /\ ret.num_points >= 2

\* the half-width the grid is to have, from the expected move the run reports
GridHalfWidth ==
    LET c == binary_params.current_price
        distance == RDiv(RAbs(RSub(binary_params.strike_price, c)), c)
        wide == RMax(RDiv(RMul(<<3, 1>>, ret.value.expected_move), c),
                     RMul(<<3, 2>>, distance))
        reach == RDiv(<<3, 2>>, hedge_params.leverage)
    IN  IF RGt(hedge_params.leverage, One) /\ RLt(wide, reach)
        THEN reach ELSE wide

C16_StrictlyIncreasing ==
    ValidRun =>
        \A i \in 1..(ret.num_points - 1) :
            RLt(ret.value.price_changes[i], ret.value.price_changes[i + 1])

\* the grid of the last run is strictly increasing
GridIncreasing ==
    \A i \in 1..(Len(ret.value.price_changes) - 1) :
        RLt(ret.value.price_changes[i], ret.value.price_changes[i + 1])

\* C18: whenever the grid is strictly increasing, each break-even reported
\* for pair (i, i+1) satisfies price_changes[i] <= be < price_changes[i+1], so
\* break_even_points is strictly increasing, has no duplicate value and has at
\* most N-1 entries.
C18_BreakEvenOrdered ==
    (Simulated /\ GridIncreasing) =>
        LET x == ret.value.price_changes
            be == ret.value.break_even_points
        IN  /\ Len(be) = Len(ret.scan)
            /\ \A k \in 1..Len(be) :
                  /\ RLe(x[ret.scan[k]], be[k])
                  /\ RLt(be[k], x[ret.scan[k] + 1])
            /\ \A k \in 1..(Len(be) - 1) : RLt(be[k], be[k + 1])
            /\ \A j, k \in 1..Len(be) : be[j] = be[k] => j = k
            /\ Len(be) <= ret.num_points - 1

\* a run on an increasing grid reporting two break-evens, the first one
\* strictly inside its pair
C18_Witness ==
    /\ Simulated
    /\ GridIncreasing
    /\ Len(ret.value.break_even_points) >= 2
    /\ RLt(ret.value.price_changes[ret.scan[1]], ret.value.break_even_points[1])

----------------------------------------------------------------------------
(* Properties of the unleveraged hedge                                     *)

\* +hedge_amount for a long hedge, -hedge_amount for a short one
HedgeSlope ==
    IF hedge_params.hedge_direction = "long"
    THEN hedge_params.hedge_amount
    ELSE RNeg(hedge_params.hedge_amount)

\* hedge_amount * leverage * fee_rate * 2 if fees are applied, else 0
RoundTripFees ==
    IF hedge_params.apply_fees
    THEN RMul(RMul(RMul(hedge_params.hedge_amount, hedge_params.leverage),
                   hedge_params.fee_rate), <<2, 1>>)
    ELSE Zero

====
